---------------------------- MODULE Spec2Model ----------------------------
(***************************************************************************)
(* Reasoning-content handling for DeepSeek style chat backends:            *)
(*   isNewUserTurn                      (detect-turn-boundary.ts)          *)
(*   clearReasoningContentFromMessages  (clear-reasoning-content.ts)       *)
(*   convertToR1Format                  (r1-format.ts)                     *)
(*                                                                         *)
(* A JavaScript message object is a record whose DOMAIN is the set of its  *)
(* own property names, so `"reasoning_content" in message` is              *)
(* "reasoning_content" \in DOMAIN message.  A content value is either a    *)
(* string or an array; the two are told apart by Array.isArray / typeof,   *)
(* which is the field isArray here:                                        *)
(*     "Hello"        is  [isArray |-> FALSE, text  |-> "Hello"]           *)
(*     [b1, b2]       is  [isArray |-> TRUE,  parts |-> <<b1, b2>>]        *)
(* Strings are TLA+ strings, + and template literals are \o.               *)
(***************************************************************************)
EXTENDS Integers, Sequences, FiniteSets, TLC

VARIABLES history, called, clearArg, newTurn, cleaned, converted

vars == <<history, called, clearArg, newTurn, cleaned, converted>>

(* Longest conversation history explored. *)
MaxLen == 3

---------------------------------------------------------------------------
(* Values *)

Str(s) == [isArray |-> FALSE, text |-> s]

Arr(parts) == [isArray |-> TRUE, parts |-> parts]

(* the content of a message object that has no content property: neither   *)
(* an array nor a string                                                   *)
Undefined == [isArray |-> FALSE]

(* typeof content === "string" *)
IsString(content) == ~content.isArray /\ "text" \in DOMAIN content

Text(t) == [type |-> "text", text |-> t]

Image(mediaType, data) ==
    [type |-> "image",
     source |-> [type |-> "base64", media_type |-> mediaType, data |-> data]]

ToolUse(id) == [type |-> "tool_use", id |-> id, name |-> "get_weather"]

ToolResult(id) == [type |-> "tool_result", tool_use_id |-> id, content |-> "Sunny"]

UserMessages ==
    { [role |-> "user", content |-> Str("Hello")],
      [role |-> "user", content |-> Str("")],
      [role |-> "user", content |-> Arr(<<>>)],
      [role |-> "user", content |-> Arr(<<Text("a"), Text("b")>>)],
      [role |-> "user", content |-> Arr(<<Text("Check"), Image("image/jpeg", "d")>>)],
      [role |-> "user", content |-> Arr(<<Image("image/png", "e"), Text("after")>>)],
      [role |-> "user", content |-> Arr(<<Image("image/jpeg", "d")>>)],
      [role |-> "user", content |-> Arr(<<Text("a"), Image("image/jpeg", "d"),
                                          Text("b"), Image("image/png", "e")>>)],
      [role |-> "user", content |-> Arr(<<ToolResult("tool-1")>>)],
      [role |-> "user", content |-> Arr(<<Text("Here"), ToolResult("tool-1")>>)],
      [role |-> "user", content |-> Str("Hello"), reasoning_content |-> "U"] }

AssistantMessages ==
    { [role |-> "assistant", content |-> Str("Hi")],
      [role |-> "assistant", content |-> Str("Hi"), reasoning_content |-> "R1"],
      [role |-> "assistant", content |-> Str("Answer"), reasoning_content |-> "R2",
       customProperty |-> 123],
      [role |-> "assistant", content |-> Arr(<<ToolUse("tool-1")>>),
       reasoning_content |-> "R2"],
      [role |-> "assistant", content |-> Arr(<<Text("Let me check"), ToolUse("tool-1")>>)],
      [role |-> "assistant", content |-> Arr(<<Text("See"), Image("image/png", "e")>>),
       reasoning_content |-> "R1"] }

ToolMessages ==
    { [role |-> "tool", content |-> Str("Tool result"), tool_call_id |-> "call_123"] }

Messages == UserMessages \cup AssistantMessages \cup ToolMessages

(* message objects of a caller that is not type checked: the content       *)
(* property may be missing                                                 *)
UntypedMessages ==
    Messages \cup { [role |-> "user", content |-> Undefined],
                    [role |-> "assistant", content |-> Undefined] }

---------------------------------------------------------------------------
(* detect-turn-boundary.ts *)

RECURSIVE some(_, _)
(* Array.prototype.some for the test part.type === type *)
some(parts, type) ==
    IF parts = <<>> THEN FALSE
    ELSE IF Head(parts).type = type THEN TRUE
    ELSE some(Tail(parts), type)

(* looks at the first block only *)
hasToolUse_firstBlockOnly(lastMessage) ==
    /\ lastMessage.content.isArray
    /\ Len(lastMessage.content.parts) > 0
    /\ lastMessage.content.parts[1].type = "tool_use"

hasToolUse(lastMessage) ==
    lastMessage.content.isArray /\ some(lastMessage.content.parts, "tool_use")

(* looks at the first block only *)
hasToolResults_firstBlockOnly(previousMessage) ==
    /\ previousMessage.content.isArray
    /\ Len(previousMessage.content.parts) > 0
    /\ previousMessage.content.parts[1].type = "tool_result"

(* takes every array content for tool results *)
hasToolResults_anyArray(previousMessage) ==
    previousMessage.content.isArray

hasToolResults(previousMessage) ==
    previousMessage.content.isArray /\ some(previousMessage.content.parts, "tool_result")

(* a last user message carrying tool_result counts as a continuation *)
isNewUserTurn_userToolResultContinues(messages) ==
    IF Len(messages) = 0 THEN TRUE
    ELSE LET lastMessage == messages[Len(messages)] IN
         IF lastMessage.role = "user" THEN ~hasToolResults(lastMessage)
         ELSE IF lastMessage.role = "assistant" THEN
             IF hasToolUse(lastMessage) THEN FALSE
             ELSE IF Len(messages) = 1 THEN TRUE
             ELSE LET previousMessage == messages[Len(messages) - 1] IN
                  IF previousMessage.role = "user"
                  THEN IF hasToolResults(previousMessage) THEN FALSE ELSE TRUE
                  ELSE FALSE
         ELSE TRUE

(* a previous message that is not a user message gives a new turn *)
isNewUserTurn_previousNotUserIsNewTurn(messages) ==
    IF Len(messages) = 0 THEN TRUE
    ELSE LET lastMessage == messages[Len(messages)] IN
         IF lastMessage.role = "user" THEN TRUE
         ELSE IF lastMessage.role = "assistant" THEN
             IF hasToolUse(lastMessage) THEN FALSE
             ELSE IF Len(messages) = 1 THEN TRUE
             ELSE LET previousMessage == messages[Len(messages) - 1] IN
                  IF previousMessage.role = "user"
                  THEN IF hasToolResults(previousMessage) THEN FALSE ELSE TRUE
                  ELSE TRUE
         ELSE TRUE

(* an empty history counts as a continuation *)
isNewUserTurn_emptyContinues(messages) ==
    IF Len(messages) = 0 THEN FALSE
    ELSE LET lastMessage == messages[Len(messages)] IN
         IF lastMessage.role = "user" THEN TRUE
         ELSE IF lastMessage.role = "assistant" THEN
             IF hasToolUse(lastMessage) THEN FALSE
             ELSE IF Len(messages) = 1 THEN TRUE
             ELSE LET previousMessage == messages[Len(messages) - 1] IN
                  IF previousMessage.role = "user"
                  THEN IF hasToolResults(previousMessage) THEN FALSE ELSE TRUE
                  ELSE FALSE
         ELSE TRUE

(* a lone assistant message counts as a continuation *)
isNewUserTurn_singleAssistantContinues(messages) ==
    IF Len(messages) = 0 THEN TRUE
    ELSE LET lastMessage == messages[Len(messages)] IN
         IF lastMessage.role = "user" THEN TRUE
         ELSE IF lastMessage.role = "assistant" THEN
             IF hasToolUse(lastMessage) THEN FALSE
             ELSE IF Len(messages) = 1 THEN FALSE
             ELSE LET previousMessage == messages[Len(messages) - 1] IN
                  IF previousMessage.role = "user"
                  THEN IF hasToolResults(previousMessage) THEN FALSE ELSE TRUE
                  ELSE FALSE
         ELSE TRUE

(* an unknown role counts as a continuation *)
isNewUserTurn_unknownRoleContinues(messages) ==
    IF Len(messages) = 0 THEN TRUE
    ELSE LET lastMessage == messages[Len(messages)] IN
         IF lastMessage.role = "user" THEN TRUE
         ELSE IF lastMessage.role = "assistant" THEN
             IF hasToolUse(lastMessage) THEN FALSE
             ELSE IF Len(messages) = 1 THEN TRUE
             ELSE LET previousMessage == messages[Len(messages) - 1] IN
                  IF previousMessage.role = "user"
                  THEN IF hasToolResults(previousMessage) THEN FALSE ELSE TRUE
                  ELSE FALSE
         ELSE FALSE

(* the previous message is taken to be the first message *)
isNewUserTurn_previousIsFirst(messages) ==
    IF Len(messages) = 0 THEN TRUE
    ELSE LET lastMessage == messages[Len(messages)] IN
         IF lastMessage.role = "user" THEN TRUE
         ELSE IF lastMessage.role = "assistant" THEN
             IF hasToolUse(lastMessage) THEN FALSE
             ELSE IF Len(messages) = 1 THEN TRUE
             ELSE LET previousMessage == messages[1] IN
                  IF previousMessage.role = "user"
                  THEN IF hasToolResults(previousMessage) THEN FALSE ELSE TRUE
                  ELSE FALSE
         ELSE TRUE

isNewUserTurn(messages) ==
    IF Len(messages) = 0 THEN TRUE
    ELSE LET lastMessage == messages[Len(messages)] IN
         IF lastMessage.role = "user" THEN TRUE
         ELSE IF lastMessage.role = "assistant" THEN
             IF hasToolUse(lastMessage) THEN FALSE
             ELSE IF Len(messages) = 1 THEN TRUE
             ELSE LET previousMessage == messages[Len(messages) - 1] IN
                  IF previousMessage.role = "user"
                  THEN IF hasToolResults(previousMessage) THEN FALSE ELSE TRUE
                  ELSE FALSE
         ELSE TRUE

---------------------------------------------------------------------------
(* clear-reasoning-content.ts *)

(* const { reasoning_content, ...rest } = messageWithReasoning *)
rest(messageWithReasoning) ==
    [k \in DOMAIN messageWithReasoning \ {"reasoning_content"} |-> messageWithReasoning[k]]

(* the role is not looked at *)
clearMessage_anyRole(message) ==
    IF "reasoning_content" \notin DOMAIN message THEN message
    ELSE rest(message)

(* the callback of messages.map *)
clearMessage(message) ==
    IF message.role # "assistant" THEN message
    ELSE IF "reasoning_content" \notin DOMAIN message THEN message
    ELSE rest(message)

(* stops after the first message it has cleared *)
clearReasoningContentFromMessages_firstOnly(messages) ==
    [i \in 1..Len(messages) |->
        IF \E j \in 1..(i - 1) : clearMessage(messages[j]) # messages[j]
        THEN messages[i]
        ELSE clearMessage(messages[i])]

clearReasoningContentFromMessages(messages) ==
    [i \in 1..Len(messages) |-> clearMessage(messages[i])]

---------------------------------------------------------------------------
(* r1-format.ts *)

RECURSIVE join(_)
(* textParts.join("\n") *)
join(textParts) ==
    IF Len(textParts) = 0 THEN ""
    ELSE IF Len(textParts) = 1 THEN textParts[1]
    ELSE textParts[1] \o "\n" \o join(Tail(textParts))

IsTextPart(part) == part.type = "text"

IsImagePart(part) == part.type = "image"

(* the text parts of an array content, in order *)
textParts(content) ==
    LET sel == SelectSeq(content, IsTextPart)
    IN  [i \in 1..Len(sel) |-> sel[i].text]

(* every image is given the media type image/jpeg *)
imageParts_jpegOnly(content) ==
    LET sel == SelectSeq(content, IsImagePart)
    IN  [i \in 1..Len(sel) |->
            [type |-> "image_url",
             image_url |-> [url |-> "data:image/jpeg;base64," \o sel[i].source.data]]]

(* the image_url parts of an array content, in order *)
imageParts(content) ==
    LET sel == SelectSeq(content, IsImagePart)
    IN  [i \in 1..Len(sel) |->
            [type |-> "image_url",
             image_url |-> [url |-> "data:" \o sel[i].source.media_type
                                    \o ";base64," \o sel[i].source.data]]]

(* an array content always becomes an array of parts *)
messageContent_alwaysParts(message) ==
    IF message.content.isArray THEN
        LET tp == textParts(message.content.parts)
            ip == imageParts(message.content.parts)
        IN  Arr((IF Len(tp) > 0 THEN <<Text(join(tp))>> ELSE <<>>) \o ip)
    ELSE message.content

(* "Convert content to appropriate format" *)
messageContent(message) ==
    IF message.content.isArray THEN
        LET tp == textParts(message.content.parts)
            ip == imageParts(message.content.parts)
            hasImages == Len(ip) > 0
        IN  IF hasImages
            THEN Arr((IF Len(tp) > 0 THEN <<Text(join(tp))>> ELSE <<>>) \o ip)
            ELSE Str(join(tp))
    ELSE message.content

(* carries the reasoning_content of the source message over *)
newMessage_keepsTrace(message, content) ==
    LET role == IF message.role = "assistant" THEN "assistant" ELSE "user" IN
    IF "reasoning_content" \in DOMAIN message
    THEN [role |-> role, content |-> content,
          reasoning_content |-> message.reasoning_content]
    ELSE [role |-> role, content |-> content]

(* "Add as new message with the correct type based on role" *)
newMessage(message, content) ==
    IF message.role = "assistant"
    THEN [role |-> "assistant", content |-> content]
    ELSE [role |-> "user", content |-> content]

(* the new content is put in front of the accumulated content *)
mergeContent_newFirst(lastMessage, content) ==
    IF IsString(lastMessage.content) /\ IsString(content)
    THEN [lastMessage EXCEPT !.content = Str(content.text \o "\n" \o @.text)]
    ELSE LET lastContent == IF lastMessage.content.isArray
                            THEN lastMessage.content.parts
                            ELSE IF IsString(lastMessage.content)
                            THEN <<Text(lastMessage.content.text)>>
                            ELSE <<Text("")>>
             newContent  == IF content.isArray
                            THEN content.parts
                            ELSE IF IsString(content)
                            THEN <<Text(content.text)>>
                            ELSE <<[type |-> "text"]>>
         IN  [lastMessage EXCEPT !.content = Arr(newContent \o lastContent)]

(* "If last message has same role, merge the content": two strings are    *)
(* joined; otherwise the accumulated side is wrapped with                  *)
(* `lastMessage.content || ""` and the new side with messageContent as it  *)
(* is, which leaves the text of the part undefined when there is no        *)
(* content.                                                                *)
mergeContent(lastMessage, content) ==
    IF IsString(lastMessage.content) /\ IsString(content)
    THEN [lastMessage EXCEPT !.content = Str(@.text \o "\n" \o content.text)]
    ELSE LET lastContent == IF lastMessage.content.isArray
                            THEN lastMessage.content.parts
                            ELSE IF IsString(lastMessage.content)
                            THEN <<Text(lastMessage.content.text)>>
                            ELSE <<Text("")>>
             newContent  == IF content.isArray
                            THEN content.parts
                            ELSE IF IsString(content)
                            THEN <<Text(content.text)>>
                            ELSE <<[type |-> "text"]>>
         IN  [lastMessage EXCEPT !.content = Arr(lastContent \o newContent)]

(* Message objects have identity: cleanedMessages holds the very objects   *)
(* of messages wherever the map callback returned its argument, and the    *)
(* reduce callback assigns to lastMessage.content.  heap is the sequence   *)
(* of all message objects, a reference is an index into it; the objects of *)
(* the caller are 1..Len(messages), the messages of cleanedMessages and    *)
(* merged are references.                                                  *)
cleanedMessages(messages) ==
    LET cleared == clearReasoningContentFromMessages(messages)
        n == Len(messages)
    IN  [heap |-> messages \o cleared,
         refs |-> [i \in 1..n |-> IF cleared[i] = messages[i] THEN i ELSE n + i]]

(* merged.push(message): the source object itself is put in the result *)
reducer_pushesInput(acc, ref) ==
    LET message == acc.heap[ref]
        content == messageContent(message)
        last == IF Len(acc.merged) > 0 THEN acc.merged[Len(acc.merged)] ELSE 0
    IN  IF last # 0 /\ acc.heap[last].role = message.role
        THEN [acc EXCEPT !.heap[last] = mergeContent(@, content)]
        ELSE [acc EXCEPT !.merged = Append(@, ref)]

(* the callback of cleanedMessages.reduce *)
reducer(acc, ref) ==
    LET message == acc.heap[ref]
        content == messageContent(message)
        last == IF Len(acc.merged) > 0 THEN acc.merged[Len(acc.merged)] ELSE 0
    IN  IF last # 0 /\ acc.heap[last].role = message.role
        THEN [acc EXCEPT !.heap[last] = mergeContent(@, content)]
        ELSE [heap |-> Append(acc.heap, newMessage(message, content)),
              merged |-> Append(acc.merged, Len(acc.heap) + 1)]

RECURSIVE reduce(_, _)
reduce(acc, refs) ==
    IF refs = <<>> THEN acc
    ELSE reduce(reducer(acc, Head(refs)), Tail(refs))

(* the objects after the call of convertToR1Format(messages) and the       *)
(* references it returns                                                   *)
convertRun(messages) ==
    LET input == cleanedMessages(messages)
    IN  reduce([heap |-> input.heap, merged |-> <<>>], input.refs)

(* the same fold on messages that are not cleared, the new message taking  *)
(* the reasoning_content of its source                                     *)
reducer_keepsTrace(acc, ref) ==
    LET message == acc.heap[ref]
        content == messageContent(message)
        last == IF Len(acc.merged) > 0 THEN acc.merged[Len(acc.merged)] ELSE 0
    IN  IF last # 0 /\ acc.heap[last].role = message.role
        THEN [acc EXCEPT !.heap[last] = mergeContent(@, content)]
        ELSE [heap |-> Append(acc.heap, newMessage_keepsTrace(message, content)),
              merged |-> Append(acc.merged, Len(acc.heap) + 1)]

RECURSIVE reduce_keepsTrace(_, _)
reduce_keepsTrace(acc, refs) ==
    IF refs = <<>> THEN acc
    ELSE reduce_keepsTrace(reducer_keepsTrace(acc, Head(refs)), Tail(refs))

(* does not clear, and keeps the reasoning_content of a source message *)
convertToR1Format_preserving(messages) ==
    LET run == reduce_keepsTrace([heap |-> messages, merged |-> <<>>],
                                 [i \in 1..Len(messages) |-> i])
    IN  [k \in 1..Len(run.merged) |-> run.heap[run.merged[k]]]

(* the value convertToR1Format(messages) returns *)
convertToR1Format(messages) ==
    LET run == convertRun(messages)
    IN  [k \in 1..Len(run.merged) |-> run.heap[run.merged[k]]]

(* the caller's messages after convertToR1Format(messages) has returned *)
messagesAfterConvert(messages) ==
    SubSeq(convertRun(messages).heap, 1, Len(messages))

---------------------------------------------------------------------------
(* The conversation and the calls made on it *)

Init ==
    /\ history = <<>>
    /\ called = "none"
    /\ clearArg = TRUE
    /\ newTurn = TRUE
    /\ cleaned = <<>>
    /\ converted = <<>>

(* A message is added to the conversation; the values computed for the     *)
(* previous request are gone.                                              *)
AddMessage ==
    /\ Len(history) < MaxLen
    /\ \E message \in Messages : history' = Append(history, message)
    /\ called' = "none"
    /\ clearArg' = TRUE
    /\ newTurn' = TRUE
    /\ cleaned' = <<>>
    /\ converted' = <<>>

(* A message object that may lack its content is added *)
AddUntypedMessage ==
    /\ Len(history) < MaxLen
    /\ \E message \in UntypedMessages : history' = Append(history, message)
    /\ called' = "none"
    /\ clearArg' = TRUE
    /\ newTurn' = TRUE
    /\ cleaned' = <<>>
    /\ converted' = <<>>

(* isNewUserTurn(history) *)
DetectTurn ==
    /\ called = "none"
    /\ called' = "isNewUserTurn"
    /\ newTurn' = isNewUserTurn(history)
    /\ UNCHANGED <<history, clearArg, cleaned, converted>>

(* clearReasoningContentFromMessages(history, shouldClear): the function   *)
(* declares one parameter, a second argument is not read.                  *)
Scrub ==
    /\ called = "none"
    /\ \E shouldClear \in BOOLEAN :
          /\ clearArg' = shouldClear
          /\ cleaned' = clearReasoningContentFromMessages(history)
    /\ called' = "clearReasoningContentFromMessages"
    /\ UNCHANGED <<history, newTurn, converted>>

(* clearReasoningContentFromMessages applied to its own result *)
ScrubAgain ==
    /\ called = "clearReasoningContentFromMessages"
    /\ clearArg = TRUE
    /\ cleaned' = clearReasoningContentFromMessages(cleaned)
    /\ called' = "clearReasoningContentFromMessages twice"
    /\ UNCHANGED <<history, clearArg, newTurn, converted>>

(* convertToR1Format(history, clearReasoningContent): the function         *)
(* declares one parameter, a second argument is not read.                  *)
Convert ==
    /\ called = "none"
    /\ \E clearReasoningContent \in BOOLEAN :
          /\ clearArg' = clearReasoningContent
          /\ converted' = convertToR1Format(history)
    /\ history' = messagesAfterConvert(history)
    /\ called' = "convertToR1Format"
    /\ UNCHANGED <<newTurn, cleaned>>

(* convertToR1Format(cleaned) on the result of                             *)
(* clearReasoningContentFromMessages(history). A message that the clearing *)
(* returned as it was is the same object in cleaned and in history.        *)
ConvertCleaned ==
    /\ called = "clearReasoningContentFromMessages"
    /\ clearArg = TRUE
    /\ converted' = convertToR1Format(cleaned)
    /\ cleaned' = messagesAfterConvert(cleaned)
    /\ history' = [i \in 1..Len(history) |->
                      IF cleaned[i] = history[i]
                      THEN messagesAfterConvert(cleaned)[i]
                      ELSE history[i]]
    /\ called' = "convertToR1Format after clearReasoningContentFromMessages"
    /\ UNCHANGED <<clearArg, newTurn>>

Next ==
    \/ AddMessage
    \/ DetectTurn
    \/ Scrub
    \/ ScrubAgain
    \/ Convert
    \/ ConvertCleaned

Spec == Init /\ [][Next]_vars

(* the converter called on histories of untyped message objects *)
NextUntyped ==
    \/ AddUntypedMessage
    \/ Convert

SpecUntyped == Init /\ [][NextUntyped]_vars

TypeOK ==
    /\ Len(history) <= MaxLen
    /\ \A i \in 1..Len(history) : history[i] \in Messages
    /\ called \in {"none", "isNewUserTurn", "clearReasoningContentFromMessages",
                   "clearReasoningContentFromMessages twice", "convertToR1Format",
                   "convertToR1Format after clearReasoningContentFromMessages"}
    /\ clearArg \in BOOLEAN
    /\ newTurn \in BOOLEAN

---------------------------------------------------------------------------
(* Properties *)

Last(s) == s[Len(s)]

(* message.content is an array holding at least one block of the type *)
ContainsBlock(message, type) ==
    /\ message.content.isArray
    /\ \E i \in 1..Len(message.content.parts) : message.content.parts[i].type = type

HasTrace(message) == "reasoning_content" \in DOMAIN message

(* C1: no two adjacent messages returned by convertToR1Format have the     *)
(* same role.                                                              *)
C1_NoAdjacentSameRole ==
    called = "convertToR1Format" =>
        \A k \in 1..(Len(converted) - 1) : converted[k].role # converted[k + 1].role

(* a user message without any tool_result block *)
BareUser(message) ==
    message.role = "user" /\ ~ContainsBlock(message, "tool_result")

(* an assistant tool_use message was added and only user tool_result       *)
(* messages and assistant messages were added after it                     *)
InToolRounds(h) ==
    \E i \in 1..Len(h) :
        /\ h[i].role = "assistant"
        /\ ContainsBlock(h[i], "tool_use")
        /\ \A j \in (i + 1)..Len(h) :
              \/ h[j].role = "assistant"
              \/ h[j].role = "user" /\ ContainsBlock(h[j], "tool_result")

(* an assistant tool_use message was added and no bare user message was    *)
(* added after it                                                          *)
ToolSequenceOpen(h) ==
    \E i \in 1..Len(h) :
        /\ h[i].role = "assistant"
        /\ ContainsBlock(h[i], "tool_use")
        /\ \A j \in (i + 1)..Len(h) : ~BareUser(h[j])

(* C2 as stated: once an assistant tool_use message has been added,        *)
(* isNewUserTurn is false on every later prefix made of user tool_result   *)
(* messages and assistant messages.                                        *)
C2_FalseOnEveryToolRoundPrefix ==
    (called = "isNewUserTurn" /\ InToolRounds(history)) => newTurn = FALSE

(* C2 amended: once an assistant tool_use message has been added,          *)
(* isNewUserTurn is false on every later prefix whose last message is an   *)
(* assistant message, until a user message without tool_result is added.   *)
C2_FalseOnAssistantPrefixes ==
    (/\ called = "isNewUserTurn"
     /\ ToolSequenceOpen(history)
     /\ Last(history).role = "assistant") => newTurn = FALSE

C2_Witness ==
    /\ called = "isNewUserTurn"
    /\ Len(history) = 3
    /\ history[1].role = "assistant" /\ ContainsBlock(history[1], "tool_use")
    /\ history[2].role = "user" /\ ContainsBlock(history[2], "tool_result")
    /\ history[3].role = "assistant" /\ ~ContainsBlock(history[3], "tool_use")
    /\ newTurn = FALSE

(* message i is an assistant message that starts a run of assistant        *)
(* messages                                                                *)
StartsAssistantRun(h, i) ==
    /\ h[i].role = "assistant"
    /\ (i = 1 \/ h[i - 1].role # "assistant")

(* the number of same-role runs of h that start at or before message i *)
RunIndex(h, i) ==
    Cardinality({j \in 1..i : j = 1 \/ h[j].role # h[j - 1].role})

(* C3: with clearReasoningContent = false every output assistant message   *)
(* that starts a run carries the reasoning_content of its source message.  *)
C3_TracePreservedWhenNotClearing ==
    (called = "convertToR1Format" /\ clearArg = FALSE) =>
        \A i \in 1..Len(history) :
            (StartsAssistantRun(history, i) /\ HasTrace(history[i])) =>
                LET k == RunIndex(history, i) IN
                /\ k <= Len(converted)
                /\ HasTrace(converted[k])
                /\ converted[k].reasoning_content = history[i].reasoning_content

(* the history with the reasoning_content property taken off every message *)
WithoutTraces(h) ==
    [i \in 1..Len(h) |-> [k \in DOMAIN h[i] \ {"reasoning_content"} |-> h[i][k]]]

(* C4: with clearing enabled no output message has reasoning_content, and  *)
(* roles and contents are those obtained for the history without traces.   *)
C4_NoTraceInOutput ==
    (called = "convertToR1Format" /\ clearArg = TRUE) =>
        LET plain == convertToR1Format(WithoutTraces(history)) IN
        /\ \A k \in 1..Len(converted) : ~HasTrace(converted[k])
        /\ Len(converted) = Len(plain)
        /\ \A k \in 1..Len(converted) :
              /\ converted[k].role = plain[k].role
              /\ converted[k].content = plain[k].content

C4_Witness ==
    /\ called = "convertToR1Format"
    /\ clearArg = TRUE
    /\ Len(history) = 3
    /\ history[1].role = "user" /\ HasTrace(history[1])
    /\ history[2].role = "assistant" /\ HasTrace(history[2])
    /\ history[3].role = "assistant" /\ HasTrace(history[3])
    /\ Len(converted) = 2
    /\ ~HasTrace(converted[2])

(* C5: clearing keeps length and order, removes reasoning_content from     *)
(* every assistant message keeping all its other properties, and returns   *)
(* every other message as it was.                                          *)
C5_ScrubRemovesOnlyAssistantTrace ==
    (called = "clearReasoningContentFromMessages" /\ clearArg = TRUE) =>
        /\ Len(cleaned) = Len(history)
        /\ \A i \in 1..Len(history) :
              IF history[i].role = "assistant"
              THEN /\ DOMAIN cleaned[i] = DOMAIN history[i] \ {"reasoning_content"}
                   /\ \A k \in DOMAIN cleaned[i] : cleaned[i][k] = history[i][k]
              ELSE cleaned[i] = history[i]

C5_Witness ==
    /\ called = "clearReasoningContentFromMessages"
    /\ clearArg = TRUE
    /\ \E i \in 1..Len(history) : history[i].role = "user" /\ HasTrace(history[i])
    /\ \E i \in 1..Len(history) :
          /\ history[i].role = "assistant"
          /\ HasTrace(history[i])
          /\ "customProperty" \in DOMAIN history[i]
          /\ "customProperty" \in DOMAIN cleaned[i]
          /\ ~HasTrace(cleaned[i])
    /\ \E i \in 1..Len(history) : history[i].role = "tool"

(* C6: with shouldClear = false the result equals the input history.       *)
C6_ScrubFalseIsIdentity ==
    (called = "clearReasoningContentFromMessages" /\ clearArg = FALSE) =>
        cleaned = history

(* C7: clearing the cleared history again gives the cleared history.       *)
C7_ScrubIdempotent ==
    called = "clearReasoningContentFromMessages twice" =>
        cleaned = clearReasoningContentFromMessages(history)

C7_Witness ==
    /\ called = "clearReasoningContentFromMessages twice"
    /\ \E i, j \in 1..Len(history) :
          /\ i < j
          /\ history[i].role = "assistant" /\ HasTrace(history[i])
          /\ history[j].role = "assistant" /\ HasTrace(history[j])
    /\ \A i \in 1..Len(cleaned) : cleaned[i].role = "assistant" => ~HasTrace(cleaned[i])

(* C8: isNewUserTurn is true whenever the last message has role user.      *)
C8_UserLastIsNewTurn ==
    (/\ called = "isNewUserTurn"
     /\ Len(history) > 0
     /\ Last(history).role = "user") => newTurn = TRUE

C8_Witness ==
    /\ called = "isNewUserTurn"
    /\ Len(history) >= 2
    /\ Last(history).role = "user"
    /\ ContainsBlock(Last(history), "tool_result")
    /\ history[Len(history) - 1].role = "assistant"
    /\ ContainsBlock(history[Len(history) - 1], "tool_use")
    /\ newTurn = TRUE

(* C9: isNewUserTurn is false whenever the last message is an assistant    *)
(* message containing a tool_use block.                                    *)
C9_ToolUseLastIsContinuation ==
    (/\ called = "isNewUserTurn"
     /\ Len(history) > 0
     /\ Last(history).role = "assistant"
     /\ ContainsBlock(Last(history), "tool_use")) => newTurn = FALSE

C9_Witness ==
    /\ called = "isNewUserTurn"
    /\ Len(history) >= 2
    /\ Last(history).role = "assistant"
    /\ Last(history).content.isArray
    /\ Len(Last(history).content.parts) = 2
    /\ Last(history).content.parts[1].type = "text"
    /\ Last(history).content.parts[2].type = "tool_use"
    /\ newTurn = FALSE

(* C10: isNewUserTurn is false when the last message is an assistant       *)
(* message without tool_use and the one before it is a user message        *)
(* containing a tool_result block.                                         *)
C10_AfterToolResultIsContinuation ==
    (/\ called = "isNewUserTurn"
     /\ Len(history) >= 2
     /\ Last(history).role = "assistant"
     /\ ~ContainsBlock(Last(history), "tool_use")
     /\ history[Len(history) - 1].role = "user"
     /\ ContainsBlock(history[Len(history) - 1], "tool_result")) => newTurn = FALSE

C10_Witness ==
    /\ called = "isNewUserTurn"
    /\ Len(history) >= 2
    /\ Last(history).role = "assistant"
    /\ ~ContainsBlock(Last(history), "tool_use")
    /\ history[Len(history) - 1].role = "user"
    /\ history[Len(history) - 1].content.isArray
    /\ Len(history[Len(history) - 1].content.parts) = 2
    /\ history[Len(history) - 1].content.parts[1].type = "text"
    /\ history[Len(history) - 1].content.parts[2].type = "tool_result"
    /\ newTurn = FALSE

(* C11: isNewUserTurn is true when the last message is an assistant        *)
(* message without tool_use and the one before it is a user message        *)
(* without any tool_result block.                                          *)
C11_AfterBareUserIsNewTurn ==
    (/\ called = "isNewUserTurn"
     /\ Len(history) >= 2
     /\ Last(history).role = "assistant"
     /\ ~ContainsBlock(Last(history), "tool_use")
     /\ BareUser(history[Len(history) - 1])) => newTurn = TRUE

C11_Witness ==
    /\ called = "isNewUserTurn"
    /\ Len(history) = 3
    /\ Last(history).role = "assistant"
    /\ ~ContainsBlock(Last(history), "tool_use")
    /\ history[2].role = "user"
    /\ history[2].content.isArray
    /\ Len(history[2].content.parts) > 0
    /\ ~ContainsBlock(history[2], "tool_result")
    /\ history[1].role = "user" /\ ContainsBlock(history[1], "tool_result")
    /\ newTurn = TRUE

(* C12: isNewUserTurn is false when the last two messages are assistant    *)
(* messages and the last one has no tool_use block.                        *)
C12_ConsecutiveAssistantsContinue ==
    (/\ called = "isNewUserTurn"
     /\ Len(history) >= 2
     /\ Last(history).role = "assistant"
     /\ ~ContainsBlock(Last(history), "tool_use")
     /\ history[Len(history) - 1].role = "assistant") => newTurn = FALSE

C12_Witness ==
    /\ called = "isNewUserTurn"
    /\ Len(history) = 3
    /\ history[1].role = "user" /\ BareUser(history[1])
    /\ history[2].role = "assistant" /\ ~ContainsBlock(history[2], "tool_use")
    /\ history[3].role = "assistant" /\ ~ContainsBlock(history[3], "tool_use")
    /\ newTurn = FALSE

(* C13: isNewUserTurn of the empty history is true.                        *)
C13_EmptyHistoryIsNewTurn ==
    (called = "isNewUserTurn" /\ Len(history) = 0) => newTurn = TRUE

C13_Witness ==
    /\ called = "isNewUserTurn"
    /\ history = <<>>
    /\ newTurn = TRUE

(* C14: isNewUserTurn is true for a history of exactly one assistant       *)
(* message without tool_use.                                               *)
C14_SingleAssistantIsNewTurn ==
    (/\ called = "isNewUserTurn"
     /\ Len(history) = 1
     /\ history[1].role = "assistant"
     /\ ~ContainsBlock(history[1], "tool_use")) => newTurn = TRUE

C14_Witness ==
    /\ called = "isNewUserTurn"
    /\ Len(history) = 1
    /\ history[1].role = "assistant"
    /\ ~history[1].content.isArray
    /\ newTurn = TRUE

(* C15: isNewUserTurn is true whenever the last message has a role other   *)
(* than user and assistant.                                                *)
C15_UnknownRoleIsNewTurn ==
    (/\ called = "isNewUserTurn"
     /\ Len(history) > 0
     /\ Last(history).role \notin {"user", "assistant"}) => newTurn = TRUE

C15_Witness ==
    /\ called = "isNewUserTurn"
    /\ Len(history) >= 2
    /\ Last(history).role = "tool"
    /\ history[Len(history) - 1].role = "assistant"
    /\ ContainsBlock(history[Len(history) - 1], "tool_use")
    /\ newTurn = TRUE

(* the number of maximal runs of consecutive same-role messages of h *)
NumRuns(h) ==
    Cardinality({j \in 1..Len(h) : j = 1 \/ h[j].role # h[j - 1].role})

(* C16: the number of output messages is the number of maximal same-role   *)
(* runs of the input.                                                      *)
C16_OneOutputPerRun ==
    called = "convertToR1Format" => Len(converted) = NumRuns(history)

(* C17: every tool_use and tool_result block of the input is present in    *)
(* the content of an output message.                                       *)
C17_ToolBlocksKept ==
    called = "convertToR1Format" =>
        \A i \in 1..Len(history) :
            history[i].content.isArray =>
                \A b \in 1..Len(history[i].content.parts) :
                    LET block == history[i].content.parts[b] IN
                    block.type \in {"tool_use", "tool_result"} =>
                        \E k \in 1..Len(converted) :
                            /\ converted[k].content.isArray
                            /\ \E q \in 1..Len(converted[k].content.parts) :
                                  converted[k].content.parts[q] = block

RECURSIVE JoinLines(_)
(* the strings of a sequence with one newline between neighbours *)
JoinLines(strings) ==
    IF strings = <<>> THEN ""
    ELSE IF Len(strings) = 1 THEN strings[1]
    ELSE strings[1] \o "\n" \o JoinLines(Tail(strings))

RECURSIVE Flatten(_)
(* the concatenation of a sequence of sequences *)
Flatten(seqs) ==
    IF seqs = <<>> THEN <<>> ELSE Head(seqs) \o Flatten(Tail(seqs))

(* the locator of an image block *)
Locator(block) ==
    "data:" \o block.source.media_type \o ";base64," \o block.source.data

IsText(block) == block.type = "text"

IsImage(block) == block.type = "image"

IsTextOrImage(block) == block.type \in {"text", "image"}

(* what the blocks say, one string per text or image block *)
Written(blocks) ==
    [n \in 1..Len(blocks) |->
        IF blocks[n].type = "text" THEN blocks[n].text ELSE Locator(blocks[n])]

(* the text and image blocks of a source message as strings, in the order  *)
(* of the input; a message without any gives one empty text                *)
InOrderTokens(message) ==
    IF ~message.content.isArray THEN <<message.content.text>>
    ELSE LET kept == SelectSeq(message.content.parts, IsTextOrImage)
         IN  IF kept = <<>> THEN <<"">> ELSE Written(kept)

(* the same with the text blocks of the message before its image blocks *)
TextFirstTokens(message) ==
    IF ~message.content.isArray THEN <<message.content.text>>
    ELSE LET texts  == SelectSeq(message.content.parts, IsText)
             images == SelectSeq(message.content.parts, IsImage)
         IN  IF texts \o images = <<>> THEN <<"">>
             ELSE Written(texts) \o Written(images)

(* the parts of an output message as strings, in order *)
OutTokens(message) ==
    IF ~message.content.isArray THEN <<message.content.text>>
    ELSE [q \in 1..Len(message.content.parts) |->
            IF message.content.parts[q].type = "text"
            THEN message.content.parts[q].text
            ELSE message.content.parts[q].image_url.url]

(* the index of the output message that message i of h is put in: a new    *)
(* output message is started when the role of message i differs from the   *)
(* role the previous message has in the output                             *)
OutIndex(h, i) ==
    1 + Cardinality({j \in 2..i :
            h[j].role # (IF h[j - 1].role = "assistant" THEN "assistant" ELSE "user")})

(* the messages of h put in output message k, in order *)
SourcesOf(h, k) ==
    SelectSeq([i \in 1..Len(h) |-> [index |-> i, message |-> h[i]]],
              LAMBDA e : OutIndex(h, e.index) = k)

(* C18 as stated: every output message holds what its source messages      *)
(* hold, message by message and block by block in the order of the input.  *)
C18_BlocksInInputOrder ==
    called = "convertToR1Format" =>
        \A k \in 1..Len(converted) :
            LET sources == SourcesOf(history, k) IN
            JoinLines(OutTokens(converted[k])) =
                JoinLines(Flatten([n \in 1..Len(sources) |->
                                      InOrderTokens(sources[n].message)]))

(* C18 amended: every output message holds what its source messages hold,  *)
(* message by message in the order of the input; of one source message the *)
(* text blocks come first, in their order, then its image blocks, in their *)
(* order.                                                                  *)
C18_TextThenImagesInOrder ==
    called = "convertToR1Format" =>
        /\ \A i \in 1..Len(history) : OutIndex(history, i) <= Len(converted)
        /\ \A k \in 1..Len(converted) :
              LET sources == SourcesOf(history, k) IN
              /\ sources # <<>>
              /\ JoinLines(OutTokens(converted[k])) =
                    JoinLines(Flatten([n \in 1..Len(sources) |->
                                          TextFirstTokens(sources[n].message)]))

C18_Witness ==
    /\ called = "convertToR1Format"
    /\ Len(history) = 3
    /\ history[1].role = "assistant"
    /\ history[2].role = "user" /\ ContainsBlock(history[2], "image")
    /\ history[3].role = "user" /\ ContainsBlock(history[3], "image")
    /\ history[2] # history[3]
    /\ history[3].content.parts[1].type = "image"
    /\ Len(converted) = 2
    /\ Len(converted[2].content.parts) = 4

(* C19: an output message has string content exactly when none of the      *)
(* source messages merged into it contains an image block.                 *)
C19_StringIffNoImage ==
    called = "convertToR1Format" =>
        \A k \in 1..Len(converted) :
            ~converted[k].content.isArray <=>
                ~\E i \in 1..Len(history) :
                    OutIndex(history, i) = k /\ ContainsBlock(history[i], "image")

C19_Witness ==
    /\ called = "convertToR1Format"
    /\ Len(history) = 3
    /\ history[1].role = "user" /\ ContainsBlock(history[1], "tool_result")
    /\ history[2].role = "assistant" /\ ~history[2].content.isArray
    /\ history[3].role = "assistant" /\ ContainsBlock(history[3], "image")
    /\ Len(converted) = 2
    /\ ~converted[1].content.isArray
    /\ converted[2].content.isArray

(* the string a source message without image block is transcoded to *)
PlainString(message) ==
    IF ~message.content.isArray THEN message.content.text
    ELSE LET texts == SelectSeq(message.content.parts, IsText)
         IN  JoinLines([n \in 1..Len(texts) |-> texts[n].text])

(* messages i..j of h are a maximal run of consecutive same-role messages *)
MaximalRun(h, i, j) ==
    /\ i <= j
    /\ \A n \in i..j : h[n].role = h[i].role
    /\ (i = 1 \/ h[i - 1].role # h[i].role)
    /\ (j = Len(h) \/ h[j + 1].role # h[i].role)

(* C20: a run of same-role messages that all transcode to plain strings    *)
(* gives one output message, the strings joined by single newlines.        *)
C20_RunOfStringsJoined ==
    called = "convertToR1Format" =>
        \A i, j \in 1..Len(history) :
            (/\ MaximalRun(history, i, j)
             /\ \A n \in i..j : ~ContainsBlock(history[n], "image")) =>
                LET k == RunIndex(history, i) IN
                /\ k <= Len(converted)
                /\ converted[k].content =
                      Str(JoinLines([n \in 1..(j - i + 1) |->
                                        PlainString(history[i + n - 1])]))

(* the reasoning_content of the last message of sources that has one *)
LatestTrace(sources) ==
    LET n == CHOOSE m \in 1..Len(sources) :
                 /\ HasTrace(sources[m].message)
                 /\ \A q \in (m + 1)..Len(sources) : ~HasTrace(sources[q].message)
    IN  sources[n].message.reasoning_content

(* C21: an output message merged from several assistant messages carries   *)
(* the reasoning_content of the latest of them that has one.               *)
C21_LatestTraceWins ==
    (called = "convertToR1Format" /\ clearArg = FALSE) =>
        \A k \in 1..Len(converted) :
            LET sources == SourcesOf(history, k) IN
            (/\ Len(sources) >= 2
             /\ \A n \in 1..Len(sources) : sources[n].message.role = "assistant"
             /\ \E n \in 1..Len(sources) : HasTrace(sources[n].message)) =>
                /\ HasTrace(converted[k])
                /\ converted[k].reasoning_content = LatestTrace(sources)

(* C22: a call of clearReasoningContentFromMessages or convertToR1Format   *)
(* leaves every message of the caller's history as it was.                 *)
C22_HistoryNotChanged ==
    [][called' # "none" => history' = history]_vars

C22_Witness ==
    /\ called = "convertToR1Format"
    /\ Len(history) = 3
    /\ history[1].role = "user" /\ ~HasTrace(history[1])
    /\ history[2].role = "user" /\ history[2].content.isArray
    /\ history[3].role = "assistant" /\ HasTrace(history[3])
    /\ Len(converted) = 2
    /\ converted[1].content # history[1].content

(* C23: a message whose role is neither user nor assistant is in the       *)
(* output with its role, not merged with a neighbour.                      *)
C23_OtherRolePassedThrough ==
    called = "convertToR1Format" =>
        \A i \in 1..Len(history) :
            history[i].role \notin {"user", "assistant"} =>
                \E k \in 1..Len(converted) :
                    /\ converted[k].role = history[i].role
                    /\ converted[k].content = history[i].content

(* what a single message with array content is to become *)
SingleArrayContent(blocks) ==
    LET texts  == SelectSeq(blocks, IsText)
        images == SelectSeq(blocks, IsImage)
        joined == JoinLines([n \in 1..Len(texts) |-> texts[n].text])
    IN  IF images # <<>>
        THEN Arr((IF texts # <<>> THEN <<[type |-> "text", text |-> joined]>> ELSE <<>>)
                 \o [n \in 1..Len(images) |->
                        [type |-> "image_url",
                         image_url |-> [url |-> Locator(images[n])]]])
        ELSE Str(joined)

(* C24: a single message with array content becomes one leading text part  *)
(* of the newline-joined texts followed by one image part per image, or    *)
(* the newline-joined texts as a string when there is no image.            *)
C24_SingleArrayMessage ==
    (/\ called = "convertToR1Format"
     /\ Len(history) = 1
     /\ history[1].content.isArray) =>
        /\ Len(converted) = 1
        /\ converted[1].content = SingleArrayContent(history[1].content.parts)

C24_Witness ==
    /\ called = "convertToR1Format"
    /\ Len(history) = 1
    /\ history[1].content.isArray
    /\ Len(history[1].content.parts) = 4
    /\ history[1].content.parts[1].type = "text"
    /\ history[1].content.parts[2].type = "image"
    /\ history[1].content.parts[3].type = "text"
    /\ history[1].content.parts[4].type = "image"
    /\ converted[1].content.isArray
    /\ Len(converted[1].content.parts) = 3
    /\ converted[1].content.parts[1] = [type |-> "text", text |-> "a\nb"]
    /\ converted[1].content.parts[2].image_url.url = "data:image/jpeg;base64,d"
    /\ converted[1].content.parts[3].image_url.url = "data:image/png;base64,e"

(* a content as an array of parts: a string is one text part, no content   *)
(* is one text part with the empty text                                    *)
AsParts(content) ==
    IF content.isArray THEN content.parts
    ELSE IF "text" \in DOMAIN content
    THEN <<[type |-> "text", text |-> content.text]>>
    ELSE <<[type |-> "text", text |-> ""]>>

(* what the last message of h is transcoded to *)
NewSide(h) ==
    IF Last(h).content.isArray
    THEN SingleArrayContent(Last(h).content.parts)
    ELSE Last(h).content

(* C25: when the last message is merged and a side is an array, the merged *)
(* content is the parts accumulated so far followed by the parts of the    *)
(* new message, a string side being one text part and a side without       *)
(* content one text part with the empty text.                              *)
C25_MergedPartsConcatenated ==
    (/\ called = "convertToR1Format"
     /\ Len(history) >= 2
     /\ OutIndex(history, Len(history)) = OutIndex(history, Len(history) - 1)) =>
        LET accumulated ==
                Last(convertToR1Format(SubSeq(history, 1, Len(history) - 1))).content
            new == NewSide(history)
        IN  (accumulated.isArray \/ new.isArray) =>
                Last(converted).content = Arr(AsParts(accumulated) \o AsParts(new))

(* C26: isNewUserTurn of a history of at least two messages is             *)
(* isNewUserTurn of its last two messages.                                 *)
C26_LastTwoMessagesDecide ==
    (called = "isNewUserTurn" /\ Len(history) >= 2) =>
        newTurn = isNewUserTurn(SubSeq(history, Len(history) - 1, Len(history)))

C26_Witness ==
    /\ called = "isNewUserTurn"
    /\ Len(history) = 3
    /\ history[1].role = "user" /\ ContainsBlock(history[1], "tool_result")
    /\ BareUser(history[2])
    /\ history[3].role = "assistant" /\ ~ContainsBlock(history[3], "tool_use")
    /\ newTurn = TRUE

(* C27: isNewUserTurn is false when the last message is an assistant       *)
(* message without tool_use and the one before it has a role other than    *)
(* user and assistant.                                                     *)
C27_AfterOtherRoleIsContinuation ==
    (/\ called = "isNewUserTurn"
     /\ Len(history) >= 2
     /\ Last(history).role = "assistant"
     /\ ~ContainsBlock(Last(history), "tool_use")
     /\ history[Len(history) - 1].role \notin {"user", "assistant"}) => newTurn = FALSE

C27_Witness ==
    /\ called = "isNewUserTurn"
    /\ Len(history) = 3
    /\ BareUser(history[1])
    /\ history[2].role = "tool"
    /\ history[3].role = "assistant" /\ ~ContainsBlock(history[3], "tool_use")
    /\ newTurn = FALSE

(* C28: converting the cleared history gives what converting the history   *)
(* gives.                                                                  *)
C28_ClearThenConvertIsConvert ==
    called = "convertToR1Format after clearReasoningContentFromMessages" =>
        converted = convertToR1Format(history)

C28_Witness ==
    /\ called = "convertToR1Format after clearReasoningContentFromMessages"
    /\ Len(history) = 3
    /\ history[1].role = "user" /\ HasTrace(history[1])
    /\ history[2].role = "assistant" /\ HasTrace(history[2])
    /\ history[3].role = "assistant" /\ HasTrace(history[3])
    /\ Len(converted) = 2

=============================================================================
